---- MODULE Spec2Model ----
(***************************************************************************)
(* IPv4 fragment reassembly of ouster_pcap (ip_reassembler.cpp):           *)
(* Internals::IPv4Stream2 (the per-datagram fragment store) and            *)
(* IPv4Reassembler2 (the table of stores keyed by identifier and address   *)
(* pair).  Payloads are byte sequences, offsets are in bytes, timestamps   *)
(* are microseconds.                                                       *)
(***************************************************************************)
EXTENDS Integers, Sequences, FiniteSets, TLC

(***************************************************************************)
(* Program constants.                                                      *)
(***************************************************************************)
\* static const std::chrono::microseconds fragment_timeout(2000000);
fragment_timeout == 2000000

\* if (streams_.size() > 100)
MaxStreams == 100

\* IP::MORE_FRAGMENTS, the flag bit tested by add_fragment
MORE_FRAGMENTS == 1

\* extract_offset: fragment_offset() * 8
OffsetUnit == 8

\* uint16_t offset
OffsetWidth == 65536

(***************************************************************************)
(* Bounds of the model.                                                    *)
(***************************************************************************)
\* largest fragment_offset field value (in 8-byte units) of an input packet
MaxFragOffset == 2

\* number of distinct IPv4 addresses of the input packets
NumAddrs == 2

\* process calls in one behaviour of Spec
MaxCalls == 3

\* datagram identifiers of the load traffic of SpecLoad, one key each
NumIds == 102

\* SpecLoad: the capture clock advances only between bursts of this many
\* tracked datagrams
BurstSize == 34

\* fragments of one datagram in SpecInOrder and SpecPermute
MaxFrags == 3

(***************************************************************************)
(* Packets.  A PDU is modelled by whether it has an IP layer and, if so,   *)
(* the IP header fields the reassembler reads and the inner PDU.           *)
(***************************************************************************)
Fill(b, n) == [i \in 1..n |-> b]

\* a null inner_pdu()
NoPdu == [null |-> TRUE, flag |-> 0, payload |-> <<>>]

\* the inner PDU of a fragment as read from the wire: raw bytes
RawPDU(bytes) == [null |-> FALSE, flag |-> 255, payload |-> bytes]

\* PDU::size() of an inner PDU
size(p) == Len(p.payload)

\* IP(): a default-constructed header, no inner PDU
DefaultIP ==
    [id |-> 1, src_addr |-> 0, dst_addr |-> 0, protocol |-> 0,
     fragment_offset |-> 0, flags |-> 0, inner_pdu |-> NoPdu]

\* a packet without an IP layer: find_pdu<IP>() returns null
NoIPPacket == [has_ip |-> FALSE, ip |-> DefaultIP]

IPPacket(i) == [has_ip |-> TRUE, ip |-> i]

\* IP::is_fragmented(): more-fragments flag set or offset non-zero
is_fragmented(ip) ==
    (ip.flags % 2 = MORE_FRAGMENTS) \/ ip.fragment_offset # 0

\* Internals::pdu_from_flag: the next-layer object built from the bytes,
\* tagged with the protocol number that selected its decoder
pdu_from_flag(flag, buffer) ==
    [null |-> FALSE, flag |-> flag, payload |-> buffer]

(***************************************************************************)
(* Internals::IPv4Stream2                                                  *)
(***************************************************************************)
\* IPv4Stream2::IPv4Stream2(): last_timestamp_ is not initialised by the
\* constructor; it is written by add_fragment before any read.
IPv4Stream2 ==
    [fragments_ |-> <<>>, received_size_ |-> 0, total_size_ |-> 0,
     received_end_ |-> FALSE, first_fragment_ |-> DefaultIP,
     last_timestamp_ |-> 0]

IPv4Fragment2(pdu, offset) == [offset |-> offset, payload |-> pdu.payload]

extract_offset(ip) == (ip.fragment_offset * OffsetUnit) % OffsetWidth

\* add_fragment without the timeout branch
handle_timeout_never(stream, timestamp) == stream

\* the timeout branch of add_fragment
handle_timeout_ge(stream, timestamp) ==
    IF Len(stream.fragments_) # 0
       /\ (timestamp - stream.last_timestamp_) >= fragment_timeout
    THEN [stream EXCEPT !.received_size_ = 0,
                        !.total_size_ = 0,
                        !.received_end_ = FALSE,
                        !.fragments_ = <<>>,
                        !.first_fragment_ = DefaultIP]
    ELSE stream

\* if (!fragments_.empty() && (timestamp - last_timestamp_) > fragment_timeout) ...
handle_timeout(stream, timestamp) ==
    IF Len(stream.fragments_) # 0
       /\ (timestamp - stream.last_timestamp_) > fragment_timeout
    THEN [stream EXCEPT !.received_size_ = 0,
                        !.total_size_ = 0,
                        !.received_end_ = FALSE,
                        !.fragments_ = <<>>,
                        !.first_fragment_ = DefaultIP]
    ELSE stream

\* scan that always stops at fragments_.end()
scan_end(frags, it, offset) == Len(frags) + 1

\* while (it != fragments_.end() && offset > it->offset()) ++it;
RECURSIVE scan(_, _, _)
scan(frags, it, offset) ==
    IF it <= Len(frags) /\ offset > frags[it].offset
    THEN scan(frags, it + 1, offset)
    ELSE it

\* fragments_.erase(it)
erase(frags, it) ==
    [i \in 1..(Len(frags) - 1) |-> IF i < it THEN frags[i] ELSE frags[i + 1]]

\* fragments_.insert(it, f)
insert_back(frags, it, f) == Append(frags, f)

\* fragments_.insert(it, IPv4Fragment2(...))
insert(frags, it, f) ==
    [i \in 1..(Len(frags) + 1) |->
        IF i < it THEN frags[i] ELSE IF i = it THEN f ELSE frags[i - 1]]

\* duplicates dropped instead of replaced
place_fragment_keep_old(stream, ip) ==
    LET offset == extract_offset(ip)
        it == scan(stream.fragments_, 1, offset)
        frag == IPv4Fragment2(ip.inner_pdu, offset)
    IN  IF it <= Len(stream.fragments_) /\ stream.fragments_[it].offset = offset
        THEN stream
        ELSE [stream EXCEPT
                !.fragments_ = insert(stream.fragments_, it, frag),
                !.received_size_ = stream.received_size_ + size(ip.inner_pdu)]

\* the insertion / duplicate replacement part of add_fragment
place_fragment(stream, ip) ==
    LET offset == extract_offset(ip)
        it == scan(stream.fragments_, 1, offset)
        frag == IPv4Fragment2(ip.inner_pdu, offset)
    IN  IF it <= Len(stream.fragments_) /\ stream.fragments_[it].offset = offset
        THEN [stream EXCEPT
                !.fragments_ = insert(erase(stream.fragments_, it), it, frag)]
        ELSE [stream EXCEPT
                !.fragments_ = insert(stream.fragments_, it, frag),
                !.received_size_ = stream.received_size_ + size(ip.inner_pdu)]

\* total_size_ only ever raised by a fragment without the MF flag
mark_end_max(stream, ip) ==
    IF ip.flags % 2 # MORE_FRAGMENTS
    THEN [stream EXCEPT
            !.total_size_ =
                IF extract_offset(ip) + size(ip.inner_pdu) > stream.total_size_
                THEN extract_offset(ip) + size(ip.inner_pdu)
                ELSE stream.total_size_,
            !.received_end_ = TRUE]
    ELSE stream

\* if ((ip->flags() & IP::MORE_FRAGMENTS) == 0) ...
mark_end(stream, ip) ==
    IF ip.flags % 2 # MORE_FRAGMENTS
    THEN [stream EXCEPT
            !.total_size_ = extract_offset(ip) + size(ip.inner_pdu),
            !.received_end_ = TRUE]
    ELSE stream

\* first_fragment_ taken from every fragment, whatever its offset
keep_first_any(stream, ip) ==
    [stream EXCEPT !.first_fragment_ = [ip EXCEPT !.inner_pdu = NoPdu]]

\* if (offset == 0) first_fragment_ = *ip, without the inner PDU
keep_first(stream, ip) ==
    IF extract_offset(ip) = 0
    THEN [stream EXCEPT !.first_fragment_ = [ip EXCEPT !.inner_pdu = NoPdu]]
    ELSE stream

add_fragment_reset_last(stream, timestamp, ip) ==
    LET s1 == place_fragment(stream, ip)
        s2 == mark_end(s1, ip)
        s3 == keep_first(s2, ip)
        s4 == handle_timeout(s3, timestamp)
    IN  [s4 EXCEPT !.last_timestamp_ = timestamp]

\* void IPv4Stream2::add_fragment(const std::chrono::microseconds&, IP*)
add_fragment(stream, timestamp, ip) ==
    LET s1 == handle_timeout(stream, timestamp)
        s2 == [s1 EXCEPT !.last_timestamp_ = timestamp]
        s3 == place_fragment(s2, ip)
        s4 == mark_end(s3, ip)
    IN  keep_first(s4, ip)

is_complete(stream) ==
    IF ~stream.received_end_ \/ stream.received_size_ # stream.total_size_
    THEN FALSE
    ELSE stream.fragments_[1].offset = 0

\* walk without the check of expected against the offset
RECURSIVE walk_unchecked(_, _, _, _)
walk_unchecked(frags, it, expected, buffer) ==
    IF it > Len(frags) THEN [ok |-> TRUE, buffer |-> buffer]
    ELSE walk_unchecked(frags, it + 1,
                        frags[it].offset + Len(frags[it].payload),
                        buffer \o frags[it].payload)

\* walk that inserts each payload at buffer.begin()
RECURSIVE walk_prepend(_, _, _, _)
walk_prepend(frags, it, expected, buffer) ==
    IF it > Len(frags) THEN [ok |-> TRUE, buffer |-> buffer]
    ELSE IF expected # frags[it].offset THEN [ok |-> FALSE, buffer |-> buffer]
    ELSE walk_prepend(frags, it + 1,
                      frags[it].offset + Len(frags[it].payload),
                      frags[it].payload \o buffer)

\* the walk of allocate_pdu: [ok, buffer] after the fragments from it on
RECURSIVE walk(_, _, _, _)
walk(frags, it, expected, buffer) ==
    IF it > Len(frags) THEN [ok |-> TRUE, buffer |-> buffer]
    ELSE IF expected # frags[it].offset THEN [ok |-> FALSE, buffer |-> buffer]
    ELSE walk(frags, it + 1,
              frags[it].offset + Len(frags[it].payload),
              buffer \o frags[it].payload)

allocate_pdu(stream) ==
    LET w == walk(stream.fragments_, 1, 0, <<>>)
    IN  IF ~w.ok THEN NoPdu
        ELSE pdu_from_flag(stream.first_fragment_.protocol, w.buffer)

first_fragment(stream) == stream.first_fragment_

(***************************************************************************)
(* IPv4Reassembler2                                                        *)
(***************************************************************************)
\* address pair kept in packet order
make_address_pair_ordered(addr1, addr2) == <<addr1, addr2>>

make_address_pair(addr1, addr2) ==
    IF addr1 < addr2 THEN <<addr1, addr2>> ELSE <<addr2, addr1>>

make_key(ip) == <<ip.id, make_address_pair(ip.src_addr, ip.dst_addr)>>

\* sweep that erases every stream once the cap is exceeded
sweep_all(streams, timestamp) ==
    IF Cardinality(DOMAIN streams) > MaxStreams THEN <<>> ELSE streams

\* sweep that never erases
sweep_never(streams, timestamp) == streams

\* the sweep of process: erase the streams older than the timeout
sweep_any_size(streams, timestamp) ==
    LET keep == {k \in DOMAIN streams :
                    ~((timestamp - streams[k].last_timestamp_) > fragment_timeout)}
    IN  [k \in keep |-> streams[k]]

sweep_ge(streams, timestamp) ==
    IF Cardinality(DOMAIN streams) > MaxStreams
    THEN LET keep == {k \in DOMAIN streams :
                        ~((timestamp - streams[k].last_timestamp_) >= fragment_timeout)}
         IN  [k \in keep |-> streams[k]]
    ELSE streams

\* if (streams_.size() > 100) { ... erase entries older than fragment_timeout }
sweep(streams, timestamp) ==
    IF Cardinality(DOMAIN streams) > MaxStreams
    THEN LET keep == {k \in DOMAIN streams :
                        ~((timestamp - streams[k].last_timestamp_) > fragment_timeout)}
         IN  [k \in keep |-> streams[k]]
    ELSE streams

\* streams_[key]: look up or create
lookup(streams, key) ==
    IF key \in DOMAIN streams THEN streams[key] ELSE IPv4Stream2

\* streams_.erase(key)
erase_key(streams, key) == [k \in (DOMAIN streams) \ {key} |-> streams[k]]

\* streams_ with the stream of key replaced
store(streams, key, stream) ==
    [k \in (DOMAIN streams) \cup {key} |-> IF k = key THEN stream ELSE streams[k]]

\* the fragmented branch with streams_.erase(key) after the corrupt-packet
\* return
process_fragment_late_erase(streams, timestamp, ip) ==
    LET key == make_key(ip)
        swept == sweep(streams, timestamp)
        stream == add_fragment(lookup(swept, key), timestamp, ip)
    IN  IF is_complete(stream)
        THEN LET pdu0 == allocate_pdu(stream)
                 ip1 == first_fragment(stream)
             IN  IF pdu0.null
                 THEN [streams |-> store(swept, key, stream),
                       pdu |-> IPPacket(ip1),
                       status |-> "FRAGMENTED"]
                 ELSE [streams |-> erase_key(swept, key),
                       pdu |-> IPPacket([ip1 EXCEPT !.inner_pdu = pdu0,
                                                    !.fragment_offset = 0,
                                                    !.flags = 0]),
                       status |-> "REASSEMBLED"]
        ELSE [streams |-> store(swept, key, stream),
              pdu |-> IPPacket(ip),
              status |-> "FRAGMENTED"]

\* the fragmented branch of process
process_fragment(streams, timestamp, ip) ==
    LET key == make_key(ip)
        swept == sweep(streams, timestamp)
        stream == add_fragment(lookup(swept, key), timestamp, ip)
    IN  IF is_complete(stream)
        THEN LET pdu0 == allocate_pdu(stream)
                 ip1 == first_fragment(stream)
             IN  IF pdu0.null
                 THEN [streams |-> erase_key(swept, key),
                       pdu |-> IPPacket(ip1),
                       status |-> "FRAGMENTED"]
                 ELSE [streams |-> erase_key(swept, key),
                       pdu |-> IPPacket([ip1 EXCEPT !.inner_pdu = pdu0,
                                                    !.fragment_offset = 0,
                                                    !.flags = 0]),
                       status |-> "REASSEMBLED"]
        ELSE [streams |-> store(swept, key, stream),
              pdu |-> IPPacket(ip),
              status |-> "FRAGMENTED"]

\* process that sweeps before it looks at the packet
process_sweep_first(streams, timestamp, pdu) ==
    IF pdu.has_ip /\ ~pdu.ip.inner_pdu.null /\ is_fragmented(pdu.ip)
    THEN process_fragment(streams, timestamp, pdu.ip)
    ELSE [streams |-> sweep(streams, timestamp), pdu |-> pdu,
          status |-> "NOT_FRAGMENTED"]

\* IPv4Reassembler2::process(timestamp, pdu): the table, the packet and the
\* status when the call returns
process(streams, timestamp, pdu) ==
    IF pdu.has_ip /\ ~pdu.ip.inner_pdu.null /\ is_fragmented(pdu.ip)
    THEN process_fragment(streams, timestamp, pdu.ip)
    ELSE [streams |-> streams, pdu |-> pdu, status |-> "NOT_FRAGMENTED"]

(***************************************************************************)
(* State.                                                                  *)
(***************************************************************************)
VARIABLES
    streams_,     \* IPv4Reassembler2::streams_
    before,       \* streams_ as it was when the last process call began
    timestamp,    \* the timestamp argument of the last call
    pdu_in,       \* the pdu argument of the last process call, as passed
    pdu,          \* the pdu argument of the last process call, as left by it
    status,       \* the PacketStatus the last process call returned
    calls,        \* number of calls so far
    script,       \* the packets a scripted run feeds, in feeding order
    stream,       \* a stand-alone IPv4Stream2 (SpecPermute)
    solo          \* a second reassembler that is fed one key's packets only

vars == <<streams_, before, timestamp, pdu_in, pdu, status, calls, script, stream,
          solo>>

(***************************************************************************)
(* Inputs.                                                                 *)
(***************************************************************************)
Bytes == {"A", "B"}
Addrs == 1..NumAddrs
Times == {0, fragment_timeout, fragment_timeout + 1}

Header(id, src, dst, off, fl, inner) ==
    [id |-> id, src_addr |-> src, dst_addr |-> dst, protocol |-> 17,
     fragment_offset |-> off, flags |-> fl, inner_pdu |-> inner]

\* payloads of the packets of Spec
Payloads == {<<>>, Fill("A", 8), Fill("B", 8), Fill("A", 16)}

\* the packets process returns NOT_FRAGMENTED for: no IP layer, no inner PDU,
\* a whole datagram
NonFragments ==
    {NoIPPacket,
     IPPacket(Header(7, 1, 2, 1, MORE_FRAGMENTS, NoPdu)),
     IPPacket(Header(7, 1, 2, 0, 0, RawPDU(Fill("A", 8))))}

\* Spec: packets between distinct hosts, in both directions, one identifier
Packets ==
    {IPPacket(Header(7, s, d, o, f, RawPDU(p))) :
        s \in Addrs, d \in Addrs, o \in 0..MaxFragOffset,
        f \in {0, MORE_FRAGMENTS}, p \in Payloads}
    \cup NonFragments

InitTable ==
    /\ streams_ = <<>>
    /\ before = <<>>
    /\ timestamp = 0
    /\ pdu_in = NoIPPacket
    /\ pdu = NoIPPacket
    /\ status = "NONE"
    /\ calls = 0
    /\ stream = IPv4Stream2
    /\ solo = [streams |-> <<>>, before |-> <<>>, pdu |-> NoIPPacket,
               status |-> "NONE"]

Init == InitTable /\ script = <<>>

\* one call process(ts, p)
Call(ts, p) ==
    /\ LET r == process(streams_, ts, p)
       IN  /\ streams_' = r.streams
           /\ pdu' = r.pdu
           /\ status' = r.status
    /\ before' = streams_
    /\ timestamp' = ts
    /\ pdu_in' = p

\* Spec: a bounded number of calls, timestamps non-decreasing
Process(ts, p) ==
    /\ calls < MaxCalls
    /\ ts >= timestamp
    /\ p.has_ip => p.ip.src_addr # p.ip.dst_addr
    /\ Call(ts, p)
    /\ calls' = calls + 1
    /\ UNCHANGED <<script, stream, solo>>

Next == \E ts \in Times, p \in Packets : Process(ts, p)

Spec == Init /\ [][Next]_vars

(***************************************************************************)
(* SpecLoad: many datagrams in flight.  Every identifier is one key; each  *)
(* call carries the first fragment of a datagram not in the table, another *)
(* first fragment of datagram 1, or a packet that is not a fragment.       *)
(***************************************************************************)
LoadFragment(id) ==
    IPPacket(Header(id, 1, 2, 0, MORE_FRAGMENTS, RawPDU(Fill("A", 8))))

LoadKey(id) == make_key(LoadFragment(id).ip)

\* the identifiers whose key is not in the table
Unused == {i \in 1..NumIds : LoadKey(i) \notin DOMAIN streams_}

\* timestamps are non-decreasing and change only between bursts
LoadTime(ts) ==
    /\ ts >= timestamp
    /\ ts # timestamp => Cardinality(DOMAIN streams_) % BurstSize = 0

LoadNew(ts) ==
    /\ LoadTime(ts)
    /\ Unused # {}
    /\ LET id == CHOOSE i \in Unused : \A j \in Unused : i <= j
       IN  Call(ts, LoadFragment(id))
    /\ UNCHANGED <<calls, script, stream, solo>>

LoadAgain(ts) ==
    /\ LoadTime(ts)
    /\ Call(ts, LoadFragment(1))
    /\ UNCHANGED <<calls, script, stream, solo>>

LoadOther(ts, p) ==
    /\ LoadTime(ts)
    /\ Call(ts, p)
    /\ UNCHANGED <<calls, script, stream, solo>>

NextLoad ==
    \/ \E ts \in Times : LoadNew(ts)
    \/ \E ts \in Times : LoadAgain(ts)
    \/ \E ts \in Times, p \in NonFragments : LoadOther(ts, p)

SpecLoad == Init /\ [][NextLoad]_vars

(***************************************************************************)
(* One two-fragment datagram of one key among first fragments of other     *)
(* keys; the second reassembler sees the one key's packets only.           *)
(***************************************************************************)
\* the key of the datagram with identifier 1
OwnKey == LoadKey(1)

OwnPackets ==
    {LoadFragment(1),
     IPPacket(Header(1, 1, 2, 1, 0, RawPDU(Fill("B", 8))))}

\* the identifiers of other keys that are not in the table
UnusedOthers == {i \in 1..(NumIds + 1) : i # 1 /\ LoadKey(i) \notin DOMAIN streams_}

LifeOther(ts) ==
    /\ LoadTime(ts)
    /\ UnusedOthers # {}
    /\ LET id == CHOOSE i \in UnusedOthers : \A j \in UnusedOthers : i <= j
       IN  Call(ts, LoadFragment(id))
    /\ UNCHANGED <<calls, script, stream, solo>>

LifeOwn(ts, p) ==
    /\ LoadTime(ts)
    /\ Call(ts, p)
    /\ LET r == process(solo.streams, ts, p)
       IN  solo' = [streams |-> r.streams, before |-> solo.streams,
                    pdu |-> r.pdu, status |-> r.status]
    /\ UNCHANGED <<calls, script, stream>>

NextLife ==
    \/ \E ts \in Times : LifeOther(ts)
    \/ \E ts \in Times, p \in OwnPackets : LifeOwn(ts, p)

SpecLife == Init /\ [][NextLife]_vars

(***************************************************************************)
(* Scripted runs: Init chooses the packets, the actions feed them in       *)
(* order.  A datagram is split into n fragments; every fragment but the    *)
(* last carries a non-empty multiple of 8 bytes and the more-fragments     *)
(* flag, so the offsets are strictly ascending.                            *)
(***************************************************************************)
BodyLens == {8, 16}
LastLens == {0, 2, 8}
Dirs == {<<1, 2>>, <<2, 1>>}

RECURSIVE SumTo(_, _)
SumTo(lens, i) == IF i = 0 THEN 0 ELSE lens[i] + SumTo(lens, i - 1)

\* fragment i of the datagram with payload lengths lens, fill bytes bs and
\* packet directions ds
Fragment(lens, bs, ds, i) ==
    IPPacket(Header(7, ds[i][1], ds[i][2], SumTo(lens, i - 1) \div OffsetUnit,
                    IF i < Len(lens) THEN MORE_FRAGMENTS ELSE 0,
                    RawPDU(Fill(bs[i], lens[i]))))

LenSeqs(n) ==
    {l \in [1..n -> BodyLens \cup LastLens] :
        /\ \A i \in 1..(n - 1) : l[i] \in BodyLens
        /\ l[n] \in LastLens}

\* timestamps of n calls: non-decreasing, no gap above the timeout
TimeSeqs(n) ==
    {t \in [1..n -> Times] :
        \A i \in 1..(n - 1) :
            t[i] <= t[i + 1] /\ t[i + 1] - t[i] <= fragment_timeout}

Perms(n) == {f \in [1..n -> 1..n] : \A i, j \in 1..n : f[i] = f[j] => i = j}

\* the datagram's fragments fed in the order perm at the times ts
Script(lens, bs, ds, perm, ts) ==
    [i \in 1..Len(lens) |->
        [ts |-> ts[i], pdu |-> Fragment(lens, bs, ds, perm[i])]]

DatagramScripts(n, dirs, perms) ==
    {Script(l, b, d, f, t) :
        l \in LenSeqs(n), b \in [1..n -> Bytes], d \in [1..n -> dirs],
        f \in perms, t \in TimeSeqs(n)}

Identity(n) == [i \in 1..n |-> i]

\* SpecInOrder: process is called on the fragments in ascending offset order
InitInOrder ==
    /\ InitTable
    /\ \E n \in 2..MaxFrags : script \in DatagramScripts(n, Dirs, {Identity(n)})

Feed ==
    /\ calls < Len(script)
    /\ Call(script[calls + 1].ts, script[calls + 1].pdu)
    /\ calls' = calls + 1
    /\ UNCHANGED <<script, stream, solo>>

NextFeed == Feed

SpecInOrder == InitInOrder /\ [][NextFeed]_vars

\* SpecPermute: a stand-alone store absorbs the fragments in any order
InitPermute ==
    /\ InitTable
    /\ \E n \in 1..MaxFrags : script \in DatagramScripts(n, {<<1, 2>>}, Perms(n))

Absorb ==
    /\ calls < Len(script)
    /\ stream' = add_fragment(stream, script[calls + 1].ts,
                              script[calls + 1].pdu.ip)
    /\ timestamp' = script[calls + 1].ts
    /\ pdu_in' = script[calls + 1].pdu
    /\ calls' = calls + 1
    /\ UNCHANGED <<streams_, before, pdu, status, script, solo>>

NextAbsorb == Absorb

SpecPermute == InitPermute /\ [][NextAbsorb]_vars

\* SpecKeys: two fragments that cannot complete a datagram, any identifiers
\* and addresses, at most the timeout apart
KeyIds == {7, 8}

InitKeys ==
    /\ InitTable
    /\ \E i1 \in KeyIds, i2 \in KeyIds, s1 \in Addrs, d1 \in Addrs,
          s2 \in Addrs, d2 \in Addrs, t \in TimeSeqs(2) :
          script =
            <<[ts |-> t[1],
               pdu |-> IPPacket(Header(i1, s1, d1, 0, MORE_FRAGMENTS,
                                       RawPDU(Fill("A", 8))))],
              [ts |-> t[2],
               pdu |-> IPPacket(Header(i2, s2, d2, 1, MORE_FRAGMENTS,
                                       RawPDU(Fill("B", 8))))]>>

SpecKeys == InitKeys /\ [][NextFeed]_vars

\* SpecShuffle: process is called, in any order and with one timestamp, on
\* the n fragments of a datagram and on a second copy of one of them that
\* has the same length, other bytes and any direction.  Fragment 1 and the
\* copy take any direction, the other fragments share one.
ShuffleDirs(n) ==
    {d \in [1..n -> Dirs] : \A i, j \in 2..n : d[i] = d[j]}

Pieces(lens, ds, j, dd) ==
    [i \in 1..(Len(lens) + 1) |->
        IF i <= Len(lens)
        THEN Fragment(lens, [k \in 1..Len(lens) |-> "A"], ds, i)
        ELSE Fragment(lens, [k \in 1..Len(lens) |-> "B"],
                      [ds EXCEPT ![j] = dd], j)]

ShuffleScripts(n) ==
    {[i \in 1..(n + 1) |-> [ts |-> 0, pdu |-> Pieces(l, d, j, dd)[f[i]]]] :
        l \in LenSeqs(n), d \in ShuffleDirs(n), j \in 1..n, dd \in Dirs,
        f \in Perms(n + 1)}

InitShuffle ==
    /\ InitTable
    /\ \E n \in 2..MaxFrags : script \in ShuffleScripts(n)

SpecShuffle == InitShuffle /\ [][NextFeed]_vars

(***************************************************************************)
(* Properties.                                                             *)
(***************************************************************************)
Age(streams, k) == timestamp - streams[k].last_timestamp_

Stale(streams, k) == Age(streams, k) > fragment_timeout

\* the last call was a process call on a fragment
FragmentCall == status \in {"FRAGMENTED", "REASSEMBLED"}

\* the payloads of the script's packets, in ascending offset order
RECURSIVE Concat(_)
Concat(entries) ==
    IF entries = {} THEN <<>>
    ELSE LET first == CHOOSE e \in entries : \A o \in entries :
                          e.pdu.ip.fragment_offset <= o.pdu.ip.fragment_offset
         IN  first.pdu.ip.inner_pdu.payload \o Concat(entries \ {first})

Datagram == Concat({script[i] : i \in 1..Len(script)})

\* C1: process called on the n >= 2 fragments of a datagram in ascending
\* offset order, same key, no gap above the timeout, key absent at first,
\* returns FRAGMENTED for the first n-1 calls and REASSEMBLED for the n-th,
\* and the n-th call leaves the packet with the concatenated payloads.
C1_InOrderReassembly ==
    calls >= 1 =>
        IF calls < Len(script)
        THEN status = "FRAGMENTED"
        ELSE /\ status = "REASSEMBLED"
             /\ ~pdu.ip.inner_pdu.null
             /\ pdu.ip.inner_pdu.payload = Datagram

\* three fragments of 8, 8 and 2 bytes reassembled
C1_Witness ==
    /\ Len(script) = 3
    /\ calls = 3
    /\ status = "REASSEMBLED"
    /\ pdu.ip.inner_pdu.payload = Fill("A", 8) \o Fill("B", 8) \o Fill("A", 2)

\* C2: a fresh store that absorbs the fragments of a well-formed datagram in
\* any order is not complete after a proper prefix, is complete after the
\* last absorb, and then stitches the payloads in ascending offset order,
\* the same bytes for every order.
C2_OrderIndependence ==
    IF calls < Len(script)
    THEN ~is_complete(stream)
    ELSE /\ is_complete(stream)
         /\ ~allocate_pdu(stream).null
         /\ allocate_pdu(stream).payload = Datagram

\* three fragments absorbed in descending offset order
C2_Witness ==
    /\ Len(script) = 3
    /\ calls = 3
    /\ script[1].pdu.ip.fragment_offset > script[2].pdu.ip.fragment_offset
    /\ script[2].pdu.ip.fragment_offset > script[3].pdu.ip.fragment_offset
    /\ is_complete(stream)
    /\ allocate_pdu(stream).payload = Datagram

\* C10: make_key gives two packets the same key exactly when they have the
\* same identifier and the same unordered address pair, so that the second
\* fragment joins the store of the first exactly then, whatever the
\* direction either travels in.
C10_KeySymmetric ==
    calls = 2 =>
        LET a == script[1].pdu.ip
            b == script[2].pdu.ip
            same == a.id = b.id
                    /\ {a.src_addr, a.dst_addr} = {b.src_addr, b.dst_addr}
        IN  /\ (make_key(a) = make_key(b)) <=> same
            /\ IF same
               THEN /\ Cardinality(DOMAIN streams_) = 1
                    /\ \A k \in DOMAIN streams_ :
                          Len(streams_[k].fragments_) = 2
               ELSE /\ Cardinality(DOMAIN streams_) = 2
                    /\ \A k \in DOMAIN streams_ :
                          Len(streams_[k].fragments_) = 1

\* two fragments in opposite directions in one store
C10_Witness ==
    /\ calls = 2
    /\ script[1].pdu.ip.src_addr = script[2].pdu.ip.dst_addr
    /\ script[1].pdu.ip.dst_addr = script[2].pdu.ip.src_addr
    /\ script[1].pdu.ip.src_addr # script[1].pdu.ip.dst_addr
    /\ script[1].pdu.ip.id = script[2].pdu.ip.id
    /\ Cardinality(DOMAIN streams_) = 1

\* C3: process returns NOT_FRAGMENTED exactly when the packet has no IP
\* layer, no inner PDU, or has the more-fragments flag clear and offset 0;
\* the call then leaves the packet and the reassembly table as they were,
\* whatever the table size and the timestamp.
C3_NotFragmentedChangesNothing ==
    /\ status = "NOT_FRAGMENTED" =>
          /\ pdu = pdu_in
          /\ streams_ = before
          /\ \/ ~pdu_in.has_ip
             \/ pdu_in.ip.inner_pdu.null
             \/ (pdu_in.ip.flags % 2 = 0 /\ pdu_in.ip.fragment_offset = 0)
    /\ FragmentCall =>
          /\ pdu_in.has_ip
          /\ ~pdu_in.ip.inner_pdu.null
          /\ ~(pdu_in.ip.flags % 2 = 0 /\ pdu_in.ip.fragment_offset = 0)

\* a NOT_FRAGMENTED call on a table over the cap that holds a stale entry
C3_Witness ==
    /\ status = "NOT_FRAGMENTED"
    /\ Cardinality(DOMAIN before) > MaxStreams
    /\ \E k \in DOMAIN before : Stale(before, k)

\* the key of the last call's packet
Key == make_key(pdu_in.ip)

\* the store of the last call's key right after add_fragment, before the
\* table decides what to do with it
Absorbed ==
    add_fragment(lookup(sweep(before, timestamp), Key), timestamp, pdu_in.ip)

RECURSIVE SumLens(_, _)
SumLens(frags, n) ==
    IF n = 0 THEN 0 ELSE Len(frags[n].payload) + SumLens(frags, n - 1)

\* sum of the payload lengths of the fragments held
HeldSize(s) == SumLens(s.fragments_, Len(s.fragments_))

\* the completeness conditions: terminal seen, sizes equal, lowest offset 0
CompleteConditions(s) ==
    /\ s.received_end_
    /\ s.received_size_ = s.total_size_
    /\ \E i \in 1..Len(s.fragments_) :
          /\ s.fragments_[i].offset = 0
          /\ \A j \in 1..Len(s.fragments_) :
                s.fragments_[j].offset >= s.fragments_[i].offset

\* the fragments, in the order held, tile the bytes from 0 without a hole
Tiles(s) ==
    \A i \in 1..Len(s.fragments_) :
        s.fragments_[i].offset = SumLens(s.fragments_, i - 1)

\* C4: received_size_ of every store is the sum of the payload lengths of
\* the fragments it holds.
C4_ReceivedSizeIsSum ==
    \A k \in DOMAIN streams_ : streams_[k].received_size_ = HeldSize(streams_[k])

\* C5: when the store satisfies the completeness conditions after the
\* absorb but its fragments do not tile from 0, allocate_pdu returns null,
\* process returns FRAGMENTED and the store is gone from the table;
\* REASSEMBLED is returned only from a store whose fragments tile.
C5_GapDetection ==
    FragmentCall =>
        /\ (CompleteConditions(Absorbed) /\ ~Tiles(Absorbed)) =>
              /\ allocate_pdu(Absorbed).null
              /\ status = "FRAGMENTED"
              /\ Key \notin DOMAIN streams_
        /\ status = "REASSEMBLED" => Tiles(Absorbed)

\* a store that looks complete and has a hole
C5_Witness ==
    /\ FragmentCall
    /\ CompleteConditions(Absorbed)
    /\ ~Tiles(Absorbed)
    /\ status = "FRAGMENTED"

\* C6: the entry of the call's key is removed when its store reports
\* completeness, whether allocate_pdu succeeds or not; no store left in the
\* table is complete; a key that was absent starts from an empty store.
C6_CompleteStoreRemoved ==
    /\ \A k \in DOMAIN streams_ :
          ~is_complete(streams_[k]) /\ ~CompleteConditions(streams_[k])
    /\ FragmentCall =>
          /\ CompleteConditions(Absorbed) => Key \notin DOMAIN streams_
          /\ (Key \notin DOMAIN before /\ Key \in DOMAIN streams_) =>
                /\ Len(streams_[Key].fragments_) = 1
                /\ streams_[Key].received_size_ = size(pdu_in.ip.inner_pdu)

\* a complete store whose stitch failed, removed
C6_Witness ==
    /\ FragmentCall
    /\ CompleteConditions(Absorbed)
    /\ allocate_pdu(Absorbed).null
    /\ Key \in DOMAIN before
    /\ Key \notin DOMAIN streams_

\* the last call absorbed a fragment into a store that held fragments last
\* seen more than the timeout before
TimedOut ==
    /\ FragmentCall
    /\ Key \in DOMAIN before
    /\ Len(before[Key].fragments_) > 0
    /\ timestamp - before[Key].last_timestamp_ > fragment_timeout

\* C7: after a fragment B is absorbed more than 2,000,000 microseconds
\* after last_seen, the store holds exactly B's fragment: received_size is
\* B's payload length, received_terminal and total_size reflect only B, the
\* header snapshot is B's header if B has offset 0 and empty otherwise.
C7_TimeoutReset ==
    TimedOut =>
        LET b == pdu_in.ip
            offset == b.fragment_offset * OffsetUnit
            last == b.flags % 2 = 0
        IN  /\ Key \in DOMAIN streams_
            /\ streams_[Key] =
                 [fragments_ |->
                     <<[offset |-> offset, payload |-> b.inner_pdu.payload]>>,
                  received_size_ |-> Len(b.inner_pdu.payload),
                  total_size_ |->
                     IF last THEN offset + Len(b.inner_pdu.payload) ELSE 0,
                  received_end_ |-> last,
                  first_fragment_ |->
                     IF offset = 0 THEN [b EXCEPT !.inner_pdu = NoPdu]
                     ELSE DefaultIP,
                  last_timestamp_ |-> timestamp]

\* a store with two fragments and a header snapshot, reset by a fragment
\* that is not at offset 0
C7_Witness ==
    /\ TimedOut
    /\ Len(before[Key].fragments_) = 2
    /\ before[Key].first_fragment_ # DefaultIP
    /\ pdu_in.ip.fragment_offset # 0

\* C8: after a call on a fragment at timestamp t that found more than 100
\* entries, no entry of the table is older than the timeout at t, and every
\* entry other than the call's own key that was not older than the timeout
\* is still present and unchanged.
C8_EvictionUnderLoad ==
    (FragmentCall /\ Cardinality(DOMAIN before) > MaxStreams) =>
        /\ \A k \in DOMAIN streams_ : ~Stale(streams_, k)
        /\ \A k \in (DOMAIN before) \ {make_key(pdu_in.ip)} :
              ~Stale(before, k) =>
                  k \in DOMAIN streams_ /\ streams_[k] = before[k]

\* a sweep that erased stale entries and kept others
C8_Witness ==
    /\ FragmentCall
    /\ Cardinality(DOMAIN before) > MaxStreams
    /\ \E k \in DOMAIN before : Stale(before, k) /\ k \notin DOMAIN streams_
    /\ \E k \in (DOMAIN before) \ {make_key(pdu_in.ip)} : k \in DOMAIN streams_

\* C9 as stated: the table never holds more entries than the cap plus the
\* one the call adds.
C9_TableSizeBounded == Cardinality(DOMAIN streams_) <= MaxStreams + 1

\* C9 amended: after a call on a fragment at timestamp t, the table holds
\* more than 101 entries only if every entry in it was last seen within the
\* timeout of t.
C9_OnlyFreshBeyondCap ==
    FragmentCall =>
        \/ Cardinality(DOMAIN streams_) <= MaxStreams + 1
        \/ \A k \in DOMAIN streams_ : ~Stale(streams_, k)

\* more than 101 entries, all of them fresh
C9_Witness ==
    /\ FragmentCall
    /\ Cardinality(DOMAIN streams_) > MaxStreams + 1

\* the script entries fed so far that carry fragment offset o
FedAt(o) == {i \in 1..calls : script[i].pdu.ip.fragment_offset = o}

\* the entry fed last among them
LatestAt(o) == script[CHOOSE i \in FedAt(o) : \A j \in FedAt(o) : j <= i]

\* the payloads fed last at each of the offsets os, in ascending offset order
RECURSIVE LatestConcat(_)
LatestConcat(os) ==
    IF os = {} THEN <<>>
    ELSE LET o == CHOOSE x \in os : \A y \in os : x <= y
         IN  LatestAt(o).pdu.ip.inner_pdu.payload \o LatestConcat(os \ {o})

FedOffsets == {script[i].pdu.ip.fragment_offset : i \in 1..calls}

\* C11: when process returns REASSEMBLED the packet carries the header
\* fields of the offset-0 fragment absorbed last (not those of the packet
\* that completed the datagram), fragment offset 0, no flags, and the
\* stitched payload as inner PDU.
C11_ReassembledHeader ==
    status = "REASSEMBLED" =>
        LET h == LatestAt(0).pdu.ip
        IN  /\ pdu.has_ip
            /\ pdu.ip.id = h.id
            /\ pdu.ip.src_addr = h.src_addr
            /\ pdu.ip.dst_addr = h.dst_addr
            /\ pdu.ip.protocol = h.protocol
            /\ pdu.ip.fragment_offset = 0
            /\ pdu.ip.flags = 0
            /\ ~pdu.ip.inner_pdu.null
            /\ pdu.ip.inner_pdu.payload = LatestConcat(FedOffsets)

\* two offset-0 fragments of opposite directions absorbed, the datagram
\* completed by a packet that travels in the direction of the first
C11_Witness ==
    /\ status = "REASSEMBLED"
    /\ Cardinality(FedAt(0)) = 2
    /\ \E i \in FedAt(0) :
          /\ script[i].pdu.ip.src_addr # LatestAt(0).pdu.ip.src_addr
          /\ script[i].pdu.ip.src_addr = pdu_in.ip.src_addr
    /\ pdu_in.ip.fragment_offset # 0

\* C12: after two fragments with the same offset, equal length and
\* different payloads went into one store, the store holds one fragment at
\* that offset, with the second payload, and the stitched output carries
\* the second payload at that byte range.
C12_DuplicateReplaced ==
    /\ \A k \in DOMAIN streams_ :
          \A i, j \in 1..Len(streams_[k].fragments_) :
              /\ (streams_[k].fragments_[i].offset
                    = streams_[k].fragments_[j].offset) => i = j
              /\ streams_[k].fragments_[i].payload =
                    LatestAt(streams_[k].fragments_[i].offset \div OffsetUnit)
                        .pdu.ip.inner_pdu.payload
    /\ status = "REASSEMBLED" =>
          /\ ~pdu.ip.inner_pdu.null
          /\ pdu.ip.inner_pdu.payload = LatestConcat(FedOffsets)

\* a datagram reassembled after a fragment beyond offset 0 was replaced
C12_Witness ==
    /\ status = "REASSEMBLED"
    /\ \E o \in FedOffsets :
          /\ o # 0
          /\ Cardinality(FedAt(o)) = 2
          /\ \E i \in FedAt(o) :
                script[i].pdu.ip.inner_pdu.payload
                    # LatestAt(o).pdu.ip.inner_pdu.payload

\* C13: the fragments of every store are held in strictly ascending offset
\* order, whatever the order of the absorbs, with duplicates and resets.
C13_FragmentsSorted ==
    \A k \in DOMAIN streams_ :
        \A i, j \in 1..Len(streams_[k].fragments_) :
            i < j => streams_[k].fragments_[i].offset
                        < streams_[k].fragments_[j].offset

\* a third fragment placed in front of two held ones
C13_Witness ==
    /\ FragmentCall
    /\ Key \in DOMAIN before
    /\ Key \in DOMAIN streams_
    /\ Len(before[Key].fragments_) = 2
    /\ Len(streams_[Key].fragments_) = 3
    /\ pdu_in.ip.fragment_offset = 0

\* the fields of the store the last call's fragment went into, as they were
\* before the absorb
Previous == lookup(sweep(before, timestamp), Key)

\* C15: an absorb with the more-fragments flag clear leaves total_size_ at
\* that fragment's offset plus its payload length and received_end_ true,
\* also when an earlier flag-clear fragment had set another value; an absorb
\* with the flag set changes neither, short of a timeout reset.
C15_TotalSizeFromLastTerminal ==
    FragmentCall =>
        /\ pdu_in.ip.flags % 2 = 0 =>
              /\ Absorbed.received_end_
              /\ Absorbed.total_size_ =
                    pdu_in.ip.fragment_offset * OffsetUnit
                        + Len(pdu_in.ip.inner_pdu.payload)
        /\ (pdu_in.ip.flags % 2 = 1 /\ ~TimedOut) =>
              /\ Absorbed.received_end_ = Previous.received_end_
              /\ Absorbed.total_size_ = Previous.total_size_
        /\ Key \in DOMAIN streams_ =>
              /\ streams_[Key].received_end_ = Absorbed.received_end_
              /\ streams_[Key].total_size_ = Absorbed.total_size_

\* a second flag-clear fragment that lowers total_size_
C15_Witness ==
    /\ FragmentCall
    /\ ~TimedOut
    /\ Key \in DOMAIN before
    /\ before[Key].received_end_
    /\ pdu_in.ip.flags % 2 = 0
    /\ Key \in DOMAIN streams_
    /\ streams_[Key].total_size_ < before[Key].total_size_

\* C17: whenever process returns FRAGMENTED the packet is left as passed.
C17_FragmentedLeavesPacket == status = "FRAGMENTED" => pdu = pdu_in

\* C18: whenever process returns REASSEMBLED the stitched payload is as
\* long as the store's total_size_ and received_size_.
C18_StitchedLengthIsTotal ==
    status = "REASSEMBLED" =>
        /\ Len(pdu.ip.inner_pdu.payload) = Absorbed.total_size_
        /\ Len(pdu.ip.inner_pdu.payload) = Absorbed.received_size_

\* the offsets a store holds
Offsets(s) == {s.fragments_[i].offset : i \in 1..Len(s.fragments_)}

\* C14: a key that was in the table before a call is absent after it only
\* if it is the call's key and its store met the completeness conditions, or
\* the table held more than MaxStreams entries and the entry was older than
\* fragment_timeout; a timed-out store that gets a fragment while the table
\* holds at most MaxStreams entries stays under its key with that fragment.
C14_KeyLifecycle ==
    /\ \A k \in DOMAIN before \ DOMAIN streams_ :
          /\ FragmentCall
          /\ \/ k = Key /\ CompleteConditions(Absorbed)
             \/ Cardinality(DOMAIN before) > MaxStreams /\ Stale(before, k)
    /\ (TimedOut /\ Cardinality(DOMAIN before) <= MaxStreams) =>
          /\ Key \in DOMAIN streams_
          /\ Offsets(streams_[Key]) = {pdu_in.ip.fragment_offset * OffsetUnit}

\* a timed-out store reset in place while other stale entries stay
C14_Witness ==
    /\ TimedOut
    /\ Cardinality(DOMAIN before) <= MaxStreams
    /\ Key \in DOMAIN streams_
    /\ \E k \in DOMAIN before \ {Key} : Stale(before, k) /\ k \in DOMAIN streams_

\* C16: both timeout tests are strict: a store is reset by add_fragment,
\* and an entry is removed by the sweep when the table holds more than
\* MaxStreams entries, exactly when the time since its last fragment
\* exceeds fragment_timeout; at exactly fragment_timeout the fragments stay.
C16_TimeoutStrict ==
    FragmentCall =>
        /\ \A k \in DOMAIN before \ {Key} :
              k \in DOMAIN streams_ <=>
                  ~(/\ Cardinality(DOMAIN before) > MaxStreams
                    /\ Age(before, k) >= fragment_timeout + 1)
        /\ Key \in DOMAIN before =>
              IF Age(before, Key) <= fragment_timeout
              THEN /\ Offsets(before[Key]) \subseteq Offsets(Absorbed)
                   /\ Absorbed.received_size_ >= before[Key].received_size_
              ELSE Offsets(Absorbed) = {pdu_in.ip.fragment_offset * OffsetUnit}
        /\ Key \in DOMAIN streams_ => streams_[Key] = Absorbed

\* a datagram completed by a fragment that came exactly fragment_timeout
\* after the first one, in a table of more than MaxStreams entries of that age
C16_Witness ==
    /\ status = "REASSEMBLED"
    /\ Cardinality(DOMAIN before) > MaxStreams
    /\ Age(before, Key) = fragment_timeout
    /\ \E k \in DOMAIN before \ {Key} :
          Age(before, k) = fragment_timeout /\ k \in DOMAIN streams_

\* C19: every store in the table holds at least one fragment, and the
\* store whose completeness a call tests holds at least one fragment.
C19_StoresNonEmpty ==
    /\ \A k \in DOMAIN streams_ : Len(streams_[k].fragments_) >= 1
    /\ FragmentCall => Len(Absorbed.fragments_) >= 1

\* the call's own stale entry removed by the sweep and created again
C19_Witness ==
    /\ FragmentCall
    /\ Cardinality(DOMAIN before) > MaxStreams
    /\ Key \in DOMAIN before
    /\ Stale(before, Key)
    /\ Key \in DOMAIN streams_
    /\ Len(streams_[Key].fragments_) = 1

\* C20: the status and the packet a call on one key's fragment yields are
\* those of a reassembler that was fed that key's packets only.
C20_KeyIsolation ==
    (FragmentCall /\ Key = OwnKey) =>
        /\ status = solo.status
        /\ pdu = solo.pdu

\* the key's stale entry was removed by another key's call and is created
\* again, while the second reassembler resets its store in place
C20_Witness ==
    /\ FragmentCall
    /\ Key = OwnKey
    /\ OwnKey \notin DOMAIN before
    /\ OwnKey \in DOMAIN solo.before
    /\ Len(solo.before[OwnKey].fragments_) = 1
    /\ solo.status = "FRAGMENTED"

====
